---- MODULE Spec2Model ----
(***************************************************************************)
(* Model of ShapeDetector (src/src/main.ts): toGray, sobel and the         *)
(* detectShapes scan / flood fill / classification pipeline.               *)
(*                                                                         *)
(* JavaScript arrays are sequences: JS index i is TLA+ index i + 1.        *)
(* A JavaScript number that need not be an integer is kept exactly: a      *)
(* quotient is the fraction [num, den], Math.sqrt of an integer s is the   *)
(* pair <<r, s - r * r>> with r the integer part of the root.  The         *)
(* weighted sums of toGray are taken in thousandths; the colours of the    *)
(* input pictures give sums that are not near a rounding tie, so the       *)
(* double-precision result rounds to the same sample.                      *)
(*                                                                         *)
(* Spec       one call of detectShapes, a step per loop iteration          *)
(* FairSpec   Spec with the steps of a started call always taken           *)
(* SpecSobel  sobel applied to every small luminance buffer                *)
(* SpecLabel  the classification of lines 119-124 applied to every count   *)
(***************************************************************************)
EXTENDS Integers, Sequences, FiniteSets, TLC

VARIABLES
  imageData,  \* the argument of detectShapes
  gray,       \* line 75 (the argument of sobel in SpecSobel)
  edges,      \* line 76
  width,      \* line 78
  height,     \* line 79
  visited,    \* line 80
  queue,      \* line 89
  points,     \* line 90
  shapes,     \* line 83
  x,          \* line 86
  y,          \* line 85
  pc,         \* where the call is: start, scan, fill, done
  result,     \* the DetectionResult the call returned
  regions,    \* history: every finished flood fill, emitted or not
  count,      \* points.length in lines 121-123 (SpecLabel)
  type        \* line 120 (SpecLabel)

vars == <<imageData, gray, edges, width, height, visited, queue, points,
          shapes, x, y, pc, result, regions, count, type>>

\* ---------------------------------------------------------------- bounds
MaxWidth == 84
MaxHeight == 5
MaxDim == 4
MaxPixels == 12
MaxCount == 1600

\* ------------------------------------------------------ program constants
EdgeOn == 255
GradientThreshold == 100
MinRegionSize == 80
TriangleBelow == 400
RectangleBelow == 900
PentagonBelow == 1500

\* Number -> Uint8ClampedArray element: round to nearest, ties to even,
\* clamped to 0..255.  The number is num / den with den > 0.
ToUint8Clamp(num, den) ==
  LET q == num \div den
      r == num % den
      rounded == IF 2 * r < den THEN q
                 ELSE IF 2 * r > den THEN q + 1
                 ELSE IF q % 2 = 0 THEN q ELSE q + 1
  IN IF rounded < 0 THEN 0 ELSE IF rounded > 255 THEN 255 ELSE rounded

\* ------------------------------------------------------- input pictures
Black == <<0, 0, 0>>
White == <<255, 255, 255>>
Green == <<0, 100, 0>>
NoLine == [row |-> -1, x0 |-> 0, x1 |-> -1]
NoDot == [x |-> -1, y |-> -1, colour |-> Black]

\* An ImageData is kept as its width, its height, the length of its data
\* and the picture the data holds: a black background, at most one white
\* horizontal line and at most one coloured dot.
PixelOf(img, px, py) ==
  IF py = img.line.row /\ img.line.x0 <= px /\ px <= img.line.x1 THEN White
  ELSE IF px = img.dot.x /\ py = img.dot.y THEN img.dot.colour
  ELSE Black

\* imageData.data[b]: the RGBA bytes of the picture, row by row; alpha and
\* the bytes past the last pixel are 255.  Only read for 0 <= b < length.
DataOf(img, b) ==
  LET p == b \div 4
      c == b % 4
  IN IF c = 3 \/ p >= img.width * img.height THEN 255
     ELSE PixelOf(img, p % img.width, p \div img.width)[c + 1]

Widths == {0, 1, 2, 6, MinRegionSize + 1, MinRegionSize + 2, MaxWidth}
Heights == {0, 1, 3, MaxHeight}

\* Lines run to the right edge, from the left edge or from column 8.
Lines(w, h) ==
  {NoLine} \cup
  {[row |-> r, x0 |-> a, x1 |-> w - 1] :
     r \in 0..(h - 1), a \in {b \in {0, 8} : b <= w - 1}}

\* A white dot in the top row, a green or a white dot in row 2.
Dots(w, h) ==
  {NoDot} \cup
  {d \in {[x |-> 2, y |-> 0, colour |-> White],
          [x |-> 2, y |-> 2, colour |-> Green],
          [x |-> 4, y |-> 2, colour |-> White]} : d.x < w /\ d.y < h}

\* data.length - 4 * width * height
Deltas(w, h) == IF w <= 2 \/ (w <= 6 /\ h <= 3) THEN {0, 4, -1, -4} ELSE {0}

Images ==
  UNION {UNION {
    {[width |-> w, height |-> h, length |-> 4 * w * h + e,
      line |-> l, dot |-> d] :
        l \in Lines(w, h), d \in Dots(w, h),
        e \in {f \in Deltas(w, h) : 4 * w * h + f >= 0}}
    : h \in Heights} : w \in Widths}

\* --------------------------------------------------------------- toGray
\* gray[i / 4] = 0.299 R + 0.587 G + 0.114 B for i = 0, 4, 8, ... below
\* data.length.  A read past the end of data is undefined, the sum is NaN
\* and NaN is stored as 0; a write past the end of gray is ignored; the
\* samples never written keep the 0 the typed array is created with.
toGray(img) ==
  [k \in 1..(img.width * img.height) |->
     LET i == 4 * (k - 1)
     IN IF i + 2 < img.length
          THEN ToUint8Clamp(299 * DataOf(img, i) + 587 * DataOf(img, i + 1)
                              + 114 * DataOf(img, i + 2), 1000)
          ELSE 0]

\* ---------------------------------------------------------------- sobel
gx == <<-1, 0, 1, -2, 0, 2, -1, 0, 1>>
gy == <<-1, -2, -1, 0, 0, 0, 1, 2, 1>>

RECURSIVE IntRoot(_, _, _)
\* Largest r in lo..hi with r * r <= s (bisection).
IntRoot(s, lo, hi) ==
  IF lo >= hi THEN lo
  ELSE LET mid == (lo + hi + 1) \div 2
       IN IF mid * mid <= s THEN IntRoot(s, mid, hi)
          ELSE IntRoot(s, lo, mid - 1)

\* Math.sqrt(s) for an integer s >= 0: integer part and what is left over.
MathSqrt(s) ==
  LET r == IntRoot(s, 0, 1500)
  IN <<r, s - r * r>>

\* Exceeds with >= in place of >.
ExceedsOrEqual(magnitude, t) == magnitude[1] >= t

\* magnitude > t for magnitude = Math.sqrt(...) and an integer t.
Exceeds(magnitude, t) ==
  magnitude[1] > t \/ (magnitude[1] = t /\ magnitude[2] > 0)

\* sumX and sumY of the 3x3 neighbourhood of (px, py).
SobelSum(g, w, kernel, px, py) ==
  LET term(ky, kx) == kernel[(ky + 1) * 3 + (kx + 1) + 1]
                        * g[(py + ky) * w + (px + kx) + 1]
      row(ky) == term(ky, -1) + term(ky, 0) + term(ky, 1)
  IN row(-1) + row(0) + row(1)

\* The two loops visit 1 <= y < height - 1, 1 <= x < width - 1; every other
\* sample keeps the 0 the typed array is created with.
sobel(g, w, h) ==
  [k \in 1..(w * h) |->
     LET px == (k - 1) % w
         py == (k - 1) \div w
     IN IF 1 <= py /\ py < h - 1 /\ 1 <= px /\ px < w - 1
          THEN LET sumX == SobelSum(g, w, gx, px, py)
                   sumY == SobelSum(g, w, gy, px, py)
                   magnitude == MathSqrt(sumX * sumX + sumY * sumY)
               IN IF Exceeds(magnitude, GradientThreshold) THEN EdgeOn ELSE 0
          ELSE 0]

\* ------------------------------------------------------------ detectShapes
getIdx(w, px, py) == py * w + px

Init ==
  /\ imageData \in Images
  /\ gray = <<>>
  /\ edges = <<>>
  /\ width = 0
  /\ height = 0
  /\ visited = {}
  /\ queue = <<>>
  /\ points = <<>>
  /\ shapes = <<>>
  /\ x = 0
  /\ y = 0
  /\ pc = "start"
  /\ result = [returned |-> FALSE]
  /\ regions = <<>>
  /\ count = 0
  /\ type = "none"

\* Lines 74-85: grayscale, edge mask, empty visited set and shapes list,
\* start of the scan.
Start ==
  /\ pc = "start"
  /\ gray' = toGray(imageData)
  /\ edges' = sobel(gray', imageData.width, imageData.height)
  /\ width' = imageData.width
  /\ height' = imageData.height
  /\ visited' = {}
  /\ shapes' = <<>>
  /\ y' = 1
  /\ x' = 1
  /\ pc' = "scan"
  /\ UNCHANGED <<imageData, queue, points, result, regions, count, type>>

\* Lines 85-88, inner loop body: the pixel under the scan either seeds a
\* flood fill (line 89-90) or is skipped (x++).
ScanPixel ==
  /\ pc = "scan"
  /\ y < height - 1
  /\ x < width - 1
  /\ LET idx == getIdx(width, x, y)
     IN IF edges[idx + 1] = EdgeOn /\ idx \notin visited
          THEN /\ queue' = << <<x, y>> >>
               /\ points' = <<>>
               /\ pc' = "fill"
               /\ UNCHANGED x
          ELSE /\ x' = x + 1
               /\ UNCHANGED <<queue, points, pc>>
  /\ UNCHANGED <<imageData, gray, edges, width, height, visited, shapes, y,
                 result, regions, count, type>>

\* NextRow without the y++.
NextRowStuck ==
  /\ pc = "scan"
  /\ y < height - 1
  /\ x >= width - 1
  /\ y' = y
  /\ x' = 1
  /\ UNCHANGED <<imageData, gray, edges, width, height, visited, queue,
                 points, shapes, pc, result, regions, count, type>>

\* Line 85-86: the inner loop is over, y++ and x = 1.
NextRow ==
  /\ pc = "scan"
  /\ y < height - 1
  /\ x >= width - 1
  /\ y' = y + 1
  /\ x' = 1
  /\ UNCHANGED <<imageData, gray, edges, width, height, visited, queue,
                 points, shapes, pc, result, regions, count, type>>

\* Neighbours without the diagonal candidates.
NeighboursNoDiagonal(cx, cy) ==
  << <<cx, cy - 1>>, <<cx - 1, cy>>, <<cx, cy>>, <<cx + 1, cy>>,
     <<cx, cy + 1>> >>

\* Lines 101-103: the nine candidates pushed for an absorbed pixel, dy in
\* the outer loop and dx in the inner one; (0, 0) is pushed as well.
Neighbours(cx, cy) ==
  [k \in 1..9 |-> <<cx + ((k - 1) % 3) - 1, cy + ((k - 1) \div 3) - 1>>]

\* FillPop with points.push ahead of the visited test.
FillPopPushFirst ==
  /\ pc = "fill"
  /\ queue # <<>>
  /\ LET c == queue[Len(queue)]
         rest == SubSeq(queue, 1, Len(queue) - 1)
         cx == c[1]
         cy == c[2]
         i == getIdx(width, cx, cy)
     IN IF cx < 0 \/ cy < 0 \/ cx >= width \/ cy >= height
          THEN /\ queue' = rest
               /\ UNCHANGED <<visited, points>>
          ELSE IF edges[i + 1] = 0
          THEN /\ queue' = rest
               /\ UNCHANGED <<visited, points>>
          ELSE IF i \in visited
          THEN /\ queue' = rest
               /\ points' = Append(points, c)
               /\ UNCHANGED visited
          ELSE /\ visited' = visited \cup {i}
               /\ points' = Append(points, c)
               /\ queue' = rest \o Neighbours(cx, cy)
  /\ UNCHANGED <<imageData, gray, edges, width, height, shapes, x, y, pc,
                 result, regions, count, type>>

\* Lines 92-104, one iteration of the work-list loop.
FillPop ==
  /\ pc = "fill"
  /\ queue # <<>>
  /\ LET c == queue[Len(queue)]
         rest == SubSeq(queue, 1, Len(queue) - 1)
         cx == c[1]
         cy == c[2]
         i == getIdx(width, cx, cy)
     IN IF cx < 0 \/ cy < 0 \/ cx >= width \/ cy >= height
          THEN /\ queue' = rest
               /\ UNCHANGED <<visited, points>>
          ELSE IF edges[i + 1] = 0 \/ i \in visited
          THEN /\ queue' = rest
               /\ UNCHANGED <<visited, points>>
          ELSE /\ visited' = visited \cup {i}
               /\ points' = Append(points, c)
               /\ queue' = rest \o Neighbours(cx, cy)
  /\ UNCHANGED <<imageData, gray, edges, width, height, shapes, x, y, pc,
                 result, regions, count, type>>

\* Math.min(...v) and Math.max(...v) of a non-empty array.
MathMin(v) ==
  LET S == {v[k] : k \in 1..Len(v)}
  IN CHOOSE m \in S : \A e \in S : m <= e

\* MathMax that looks at the first element only.
MathMaxFirst(v) == v[1]

MathMax(v) ==
  LET S == {v[k] : k \in 1..Len(v)}
  IN CHOOSE m \in S : \A e \in S : m >= e

RECURSIVE SumRange(_, _, _)
\* v[lo] + ... + v[hi], by halves.
SumRange(v, lo, hi) ==
  IF lo > hi THEN 0
  ELSE IF lo = hi THEN v[lo]
  ELSE LET mid == (lo + hi) \div 2
       IN SumRange(v, lo, mid) + SumRange(v, mid + 1, hi)

\* v.reduce((a, b) => a + b, 0)
ReduceSum(v) == SumRange(v, 1, Len(v))

\* Classify with <= in place of <.
ClassifyInclusive(n) ==
  IF n <= TriangleBelow THEN "triangle"
  ELSE IF n <= RectangleBelow THEN "rectangle"
  ELSE IF n <= PentagonBelow THEN "pentagon"
  ELSE "circle"

\* Lines 119-124.
Classify(n) ==
  IF n < TriangleBelow THEN "triangle"
  ELSE IF n < RectangleBelow THEN "rectangle"
  ELSE IF n < PentagonBelow THEN "pentagon"
  ELSE "circle"

\* MakeShape with minX in place of minY in boundingBox.y.
MakeShapeBoxY(pts) ==
  LET xs == [k \in 1..Len(pts) |-> pts[k][1]]
      ys == [k \in 1..Len(pts) |-> pts[k][2]]
      minX == MathMin(xs)
      maxX == MathMax(xs)
      minY == MathMin(ys)
      maxY == MathMax(ys)
  IN [type |-> Classify(Len(pts)),
      confidence |-> [num |-> 7, den |-> 10],
      boundingBox |-> [x |-> minX, y |-> minX,
                       width |-> maxX - minX, height |-> maxY - minY],
      center |-> [x |-> [num |-> ReduceSum(xs), den |-> Len(xs)],
                  y |-> [num |-> ReduceSum(ys), den |-> Len(ys)]],
      area |-> (maxX - minX) * (maxY - minY)]

\* Lines 108-137: the DetectedShape of a region.  confidence 0.7 is 7/10;
\* the centroid coordinates are sum / length.
MakeShape(pts) ==
  LET xs == [k \in 1..Len(pts) |-> pts[k][1]]
      ys == [k \in 1..Len(pts) |-> pts[k][2]]
      minX == MathMin(xs)
      maxX == MathMax(xs)
      minY == MathMin(ys)
      maxY == MathMax(ys)
  IN [type |-> Classify(Len(pts)),
      confidence |-> [num |-> 7, den |-> 10],
      boundingBox |-> [x |-> minX, y |-> minY,
                       width |-> maxX - minX, height |-> maxY - minY],
      center |-> [x |-> [num |-> ReduceSum(xs), den |-> Len(xs)],
                  y |-> [num |-> ReduceSum(ys), den |-> Len(ys)]],
      area |-> (maxX - minX) * (maxY - minY)]

\* Discard with <= in place of <.
DiscardAtMost ==
  /\ pc = "fill"
  /\ queue = <<>>
  /\ Len(points) <= MinRegionSize
  /\ regions' = Append(regions,
                       [seed |-> <<x, y>>, points |-> points, shape |-> 0])
  /\ x' = x + 1
  /\ pc' = "scan"
  /\ UNCHANGED <<imageData, gray, edges, width, height, visited, queue,
                 points, shapes, y, result, count, type>>

\* Line 106: the work list is empty and the region is too small; continue.
\* regions records every finished region: its seed, its points and the
\* position of its shape in shapes (0 when it has none).
Discard ==
  /\ pc = "fill"
  /\ queue = <<>>
  /\ Len(points) < MinRegionSize
  /\ regions' = Append(regions,
                       [seed |-> <<x, y>>, points |-> points, shape |-> 0])
  /\ x' = x + 1
  /\ pc' = "scan"
  /\ UNCHANGED <<imageData, gray, edges, width, height, visited, queue,
                 points, shapes, y, result, count, type>>

\* Emit with shapes.unshift in place of shapes.push.
EmitUnshift ==
  /\ pc = "fill"
  /\ queue = <<>>
  /\ ~(Len(points) < MinRegionSize)
  /\ shapes' = <<MakeShape(points)>> \o shapes
  /\ regions' = Append(regions, [seed |-> <<x, y>>, points |-> points,
                                 shape |-> Len(shapes) + 1])
  /\ x' = x + 1
  /\ pc' = "scan"
  /\ UNCHANGED <<imageData, gray, edges, width, height, visited, queue,
                 points, y, result, count, type>>

\* Lines 106-137: the work list is empty and the region is large enough.
Emit ==
  /\ pc = "fill"
  /\ queue = <<>>
  /\ ~(Len(points) < MinRegionSize)
  /\ shapes' = Append(shapes, MakeShape(points))
  /\ regions' = Append(regions, [seed |-> <<x, y>>, points |-> points,
                                 shape |-> Len(shapes) + 1])
  /\ x' = x + 1
  /\ pc' = "scan"
  /\ UNCHANGED <<imageData, gray, edges, width, height, visited, queue,
                 points, y, result, count, type>>

\* Lines 142-148: the scan is over; processingTime is a clock reading and
\* is left out.
Return ==
  /\ pc = "scan"
  /\ ~(y < height - 1)
  /\ result' = [returned |-> TRUE, shapes |-> shapes,
                imageWidth |-> width, imageHeight |-> height]
  /\ pc' = "done"
  /\ UNCHANGED <<imageData, gray, edges, width, height, visited, queue,
                 points, shapes, x, y, regions, count, type>>

Next ==
  \/ Start
  \/ ScanPixel
  \/ NextRow
  \/ FillPop
  \/ Discard
  \/ Emit
  \/ Return

Spec == Init /\ [][Next]_vars

\* The steps of a call that has been made.  The body of detectShapes is
\* synchronous code: once the call is made, its next step is always taken.
Run == ScanPixel \/ NextRow \/ FillPop \/ Discard \/ Emit \/ Return

FairSpec == Init /\ [][Next]_vars /\ WF_vars(Run)

\* ------------------------------------------------------------ sobel alone
GrayVals == {0, 25, 255}

InitSobel ==
  /\ width \in 1..MaxDim
  /\ height \in 1..MaxDim
  /\ width * height <= MaxPixels
  /\ gray \in [1..(width * height) -> GrayVals]
  /\ imageData = [width |-> width, height |-> height, length |-> 0,
                  line |-> NoLine, dot |-> NoDot]
  /\ edges = <<>>
  /\ visited = {}
  /\ queue = <<>>
  /\ points = <<>>
  /\ shapes = <<>>
  /\ x = 0
  /\ y = 0
  /\ pc = "sobel"
  /\ result = [returned |-> FALSE]
  /\ regions = <<>>
  /\ count = 0
  /\ type = "none"

\* Line 76: const edges = this.sobel(gray, width, height).
SobelCall ==
  /\ pc = "sobel"
  /\ edges' = sobel(gray, width, height)
  /\ pc' = "sobelDone"
  /\ UNCHANGED <<imageData, gray, width, height, visited, queue, points,
                 shapes, x, y, result, regions, count, type>>

NextSobel == SobelCall

SpecSobel == InitSobel /\ [][NextSobel]_vars

\* ------------------------------------------------------ the label alone
InitLabel ==
  /\ count \in MinRegionSize..MaxCount
  /\ type = "none"
  /\ imageData = [width |-> 0, height |-> 0, length |-> 0,
                  line |-> NoLine, dot |-> NoDot]
  /\ gray = <<>>
  /\ edges = <<>>
  /\ width = 0
  /\ height = 0
  /\ visited = {}
  /\ queue = <<>>
  /\ points = <<>>
  /\ shapes = <<>>
  /\ x = 0
  /\ y = 0
  /\ pc = "classify"
  /\ result = [returned |-> FALSE]
  /\ regions = <<>>

\* Lines 119-124 for a region of count points.
ClassifyCall ==
  /\ pc = "classify"
  /\ type' = Classify(count)
  /\ pc' = "classified"
  /\ UNCHANGED <<imageData, gray, edges, width, height, visited, queue,
                 points, shapes, x, y, result, regions, count>>

NextLabel == ClassifyCall

SpecLabel == InitLabel /\ [][NextLabel]_vars

\* ------------------------------------------------------------ vocabulary
PointSet(pts) == {pts[k] : k \in 1..Len(pts)}

OnPixels ==
  {p \in (0..(width - 1)) \X (0..(height - 1)) :
     edges[getIdx(width, p[1], p[2]) + 1] = EdgeOn}

\* The on pixels horizontally, vertically or diagonally next to p.
AdjacentOn(p) ==
  {q \in ((p[1] - 1)..(p[1] + 1)) \X ((p[2] - 1)..(p[2] + 1)) :
     /\ q # p
     /\ 0 <= q[1] /\ q[1] < width /\ 0 <= q[2] /\ q[2] < height
     /\ edges[getIdx(width, q[1], q[2]) + 1] = EdgeOn}

\* One step outwards from the frontier F of the set S.
GrowStep(SF) ==
  LET N == (UNION {AdjacentOn(p) : p \in SF[2]}) \ SF[1]
  IN <<SF[1] \cup N, N>>

RECURSIVE Grow(_)
Grow(SF) ==
  IF SF[2] = {} THEN SF[1]
  ELSE Grow(GrowStep(GrowStep(GrowStep(GrowStep(
              GrowStep(GrowStep(GrowStep(GrowStep(SF)))))))))

\* The maximal 8-connected set of on pixels that contains seed.
Component(seed) == Grow(<<{seed}, {seed}>>)

\* p comes before q in row-major order.
Precedes(p, q) == p[2] < q[2] \/ (p[2] = q[2] /\ p[1] < q[1])

WellFormed(img) ==
  /\ img.width >= 1
  /\ img.height >= 1
  /\ img.length = 4 * img.width * img.height

RegionDone == pc = "fill" /\ queue = <<>>

\* ---------------------------------------------------------------- claims

\* C1: when the scan of detectShapes is over, every pixel of the edge mask
\* that is 255 lies in exactly one finished region (emitted or discarded),
\* no pixel lies in two regions and none occurs twice in one region.
C1_Partition ==
  pc = "done" =>
    /\ \A p \in OnPixels :
         Cardinality({k \in 1..Len(regions) :
                        p \in PointSet(regions[k].points)}) = 1
    /\ \A k \in 1..Len(regions) :
         Cardinality(PointSet(regions[k].points)) = Len(regions[k].points)
    /\ \A k, l \in 1..Len(regions) :
         k # l => PointSet(regions[k].points)
                    \cap PointSet(regions[l].points) = {}

C1_Witness ==
  /\ pc = "done"
  /\ Len(regions) >= 2
  /\ \E k \in 1..Len(regions) : regions[k].shape = 0
  /\ \E k \in 1..Len(regions) : regions[k].shape # 0

\* C2: when the work list of a flood fill becomes empty, the collected
\* points are exactly the maximal 8-connected component of on pixels that
\* contains the seed.
C2_Component ==
  RegionDone => PointSet(points) = Component(<<x, y>>)

\* A finished region that holds together only through diagonal steps.
C2_Witness ==
  /\ RegionDone
  /\ Len(points) >= 4
  /\ \A p \in PointSet(points) :
       \A q \in PointSet(points) :
          ~(p[1] = q[1] /\ (p[2] = q[2] + 1 \/ p[2] = q[2] - 1))
            /\ ~(p[2] = q[2] /\ (p[1] = q[1] + 1 \/ p[1] = q[1] - 1))

\* C3: a finished region has a shape exactly when it has at least 80
\* points; the shapes are as many as those regions; the points of every
\* finished region stay visited and no later region contains one of them;
\* when every region is below 80 points the returned shapes list is empty.
C3_MinSize ==
  /\ \A k \in 1..Len(regions) :
       /\ regions[k].shape # 0 <=> Len(regions[k].points) >= 80
       /\ \A p \in PointSet(regions[k].points) :
            getIdx(width, p[1], p[2]) \in visited
       /\ RegionDone => PointSet(points) \cap PointSet(regions[k].points) = {}
  /\ Len(shapes) = Cardinality({k \in 1..Len(regions) :
                                  Len(regions[k].points) >= 80})
  /\ (pc = "done" /\ \A k \in 1..Len(regions) : Len(regions[k].points) < 80)
       => result.shapes = <<>>

\* A small region was dropped and, later in the same scan, a region of
\* exactly 80 points was kept.
C3_Witness ==
  /\ pc = "done"
  /\ \E k, l \in 1..Len(regions) :
       /\ k < l
       /\ Len(regions[k].points) \in 1..79
       /\ regions[k].shape = 0
       /\ Len(regions[l].points) = 80
       /\ regions[l].shape # 0

StrictlyInside(lo, c, extent) ==
  lo * c.den < c.num /\ c.num < (lo + extent) * c.den

Inside(lo, c, extent) ==
  lo * c.den <= c.num /\ c.num <= (lo + extent) * c.den

\* C4 as stated: the bounding box of every shape strictly contains its
\* centroid.
C4_StrictContainment ==
  \A k \in 1..Len(shapes) :
    LET b == shapes[k].boundingBox
        c == shapes[k].center
    IN StrictlyInside(b.x, c.x, b.width) /\ StrictlyInside(b.y, c.y, b.height)

\* C4 amended: along an axis on which the bounding box has a positive
\* extent the centroid is strictly inside; along an axis on which the
\* extent is 0 (a region in one column or one row) the centroid coordinate
\* equals the box coordinate.
C4_StrictWherePositive ==
  \A k \in 1..Len(shapes) :
    LET b == shapes[k].boundingBox
        c == shapes[k].center
    IN /\ IF b.width > 0 THEN StrictlyInside(b.x, c.x, b.width)
          ELSE b.width = 0 /\ c.x.num = b.x * c.x.den
       /\ IF b.height > 0 THEN StrictlyInside(b.y, c.y, b.height)
          ELSE b.height = 0 /\ c.y.num = b.y * c.y.den

\* A returned shape whose region lies in a single row.
C4_Witness ==
  /\ pc = "done"
  /\ \E k \in 1..Len(result.shapes) :
       /\ result.shapes[k].boundingBox.height = 0
       /\ result.shapes[k].boundingBox.width > 0

\* C5: every shape has a bounding box of non-negative width and height and
\* its centroid lies inside the box, borders included.
C5_Containment ==
  \A k \in 1..Len(shapes) :
    LET b == shapes[k].boundingBox
        c == shapes[k].center
    IN /\ b.width >= 0
       /\ b.height >= 0
       /\ Inside(b.x, c.x, b.width)
       /\ Inside(b.y, c.y, b.height)

\* A returned shape whose region spans several rows and columns next to
\* one that does not start in the first column.
C5_Witness ==
  /\ pc = "done"
  /\ \E k \in 1..Len(result.shapes) :
       /\ result.shapes[k].boundingBox.height > 0
       /\ result.shapes[k].boundingBox.width > 0
       /\ result.shapes[k].boundingBox.x > 1

SqGradient(px, py) ==
  LET sumX == SobelSum(gray, width, gx, px, py)
      sumY == SobelSum(gray, width, gy, px, py)
  IN sumX * sumX + sumY * sumY

IsBorder(px, py) ==
  px = 0 \/ px = width - 1 \/ py = 0 \/ py = height - 1

\* C6: every sample of the mask returned by sobel is 0 or 255, every
\* sample on the outermost frame is 0, and an interior sample is 255
\* exactly when sumX^2 + sumY^2 of its neighbourhood is above 100^2.
C6_EdgeMask ==
  pc = "sobelDone" =>
    /\ Len(edges) = width * height
    /\ \A px \in 0..(width - 1) : \A py \in 0..(height - 1) :
         LET e == edges[py * width + px + 1]
         IN /\ e \in {0, 255}
            /\ IsBorder(px, py) => e = 0
            /\ ~IsBorder(px, py) => (e = 255 <=> SqGradient(px, py) > 100 * 100)

\* A mask with an on sample and an interior sample whose gradient is
\* exactly the threshold.
C6_Witness ==
  /\ pc = "sobelDone"
  /\ \E k \in 1..Len(edges) : edges[k] = 255
  /\ \E px \in 1..(width - 2) : \E py \in 1..(height - 2) :
       SqGradient(px, py) = 100 * 100 /\ edges[py * width + px + 1] = 0

\* C7: the label depends on the pixel count alone: triangle below 400,
\* rectangle from 400 and below 900, pentagon from 900 and below 1500,
\* circle from 1500; star is never produced.
C7_Labels ==
  pc = "classified" =>
    /\ type = "triangle" <=> count < 400
    /\ type = "rectangle" <=> (400 <= count /\ count < 900)
    /\ type = "pentagon" <=> (900 <= count /\ count < 1500)
    /\ type = "circle" <=> count >= 1500
    /\ type # "star"

C7_Witness == pc = "classified" /\ count = 1500 /\ type = "circle"

\* C8 as stated: a call with a zero width or height, or with a data length
\* other than 4 * width * height, never returns a result.
C8_RejectsMalformed ==
  ~WellFormed(imageData) => ~result.returned

RowMajorLeast(p, S) == \A q \in S : q = p \/ Precedes(p, q)

Emitted == SelectSeq(regions, LAMBDA r : Len(r.points) >= MinRegionSize)

\* C9: the shapes are in the order in which their regions were seeded by
\* the row-major scan, and the seed of every region is the row-major-least
\* pixel of the region.
C9_Order ==
  /\ \A k, l \in 1..Len(regions) :
       k < l => Precedes(regions[k].seed, regions[l].seed)
  /\ \A k \in 1..Len(regions) :
       /\ regions[k].seed \in PointSet(regions[k].points)
       /\ RowMajorLeast(regions[k].seed, PointSet(regions[k].points))
  /\ Len(shapes) = Len(Emitted)
  /\ \A k \in 1..Len(shapes) : shapes[k] = MakeShape(Emitted[k].points)

\* Two different shapes were returned.
C9_Witness ==
  /\ pc = "done"
  /\ Len(result.shapes) >= 2
  /\ result.shapes[1] # result.shapes[2]

====
